---- MODULE Spec2Model ----
(***************************************************************************)
(* Multi-agent email triage: the batch runner (main), the supervisor       *)
(* (SupervisorAgent.triageEmail, makeRoutingDecision, resolveConflict,     *)
(* determinePriority, createTriageResult) and the four evaluators          *)
(* (SpamFilter, CustomerSupport, Sales, HR).                               *)
(*                                                                         *)
(* An optional value (a regex match that may be null, a promise that may   *)
(* still be pending, a return value not yet produced) is a sequence of     *)
(* length 0 or 1.  An absent record field (suggestedActions of a degraded  *)
(* decision) is a field missing from the record's DOMAIN.                  *)
(***************************************************************************)
EXTENDS Integers, Sequences, FiniteSets, TLC

VARIABLES
    apiKey,          \* process.env.OPENAI_API_KEY: <<>> when unset, else <<string>>
    exitCode,        \* the argument of process.exit: <<>> while the process has not exited
    emails,          \* main: the input list (sampleEmails)
    i,               \* main: loop index, 1-based
    mainPc,          \* main: "start" | "loop" | "await" | "finished" | "exited"
    results,         \* main: const results: TriageResult[]
    errorLog,        \* main: ids written by console.error in the catch block
    pc,              \* triageEmail: "idle" | "spamCheck" | "parallel" | "conflict" | "done" | "raised"
    agentDecisions,  \* state.agentDecisions, as its entries in insertion order
    pending,         \* the three promises handed to Promise.all
    willingAgents,   \* the willingAgents argument of a running resolveConflict
    returned,        \* the value triageEmail resolved with
    calls,           \* llm.invoke calls made for the current email, per caller
    evalKind,        \* how each evaluator's llm.invoke ended for the current email
    replies,         \* what each evaluator's llm.invoke gave for the current email
    conflictOutcome, \* how resolveConflict's llm.invoke ended for the current email
    stub,            \* test double of the language model: the reply per caller and email id
    run,             \* which invocation of main this is: 1 or 2
    firstResults     \* the results list the first invocation of main ended with

vars == <<apiKey, exitCode, emails, i, mainPc, results, errorLog, pc, agentDecisions, pending,
          willingAgents, returned, calls, evalKind, replies, conflictOutcome,
          stub, run, firstResults>>

----------------------------------------------------------------------------
(* Names *)

Specialists == <<"CustomerSupport", "Sales", "HR">>
SpecialistNames == {"CustomerSupport", "Sales", "HR"}
EvaluatorNames == {"SpamFilter"} \cup SpecialistNames
Callers == EvaluatorNames \cup {"Supervisor"}
Priorities == {"low", "medium", "high", "urgent"}

(* Thresholds and defaults of the code *)
DefaultConfidence == 50
SpamThreshold == 70
WillingThreshold == 50
HighThreshold == 90
MediumThreshold == 70

(* Bounds of the model *)
MaxEmails == 2

SampleIds == <<"email-001", "email-002", "email-003", "email-004", "email-005", "email-006">>

\* What the environment can hold for OPENAI_API_KEY: unset, empty, a key.
EnvKeys == {<<>>, <<"">>, <<"sk-test">>}

----------------------------------------------------------------------------
(* What an llm.invoke call can do: reject ("fail"), resolve with a content *)
(* that is no string ("bad"), or resolve with a text ("text").  A text is  *)
(* described by what the evaluator's patterns find in it.                  *)

ConfidenceDigits == {70, 71, 95}
ReasoningTexts == {"Relevant to this team"}
ActionLists == {<<"Reply to sender">>}

EvalTexts ==
    [kind : {"text"},
     sh : BOOLEAN,                                          \* 'SHOULD_HANDLE: true' occurs
     conf : {<<>>} \cup {<<c>> : c \in ConfidenceDigits},      \* /CONFIDENCE: (\d+)/
     reasoning : {<<t>> : t \in ReasoningTexts},               \* /REASONING: (.+?)(?=\n|$)/
     esc : {<<>>, <<"true">>},                                \* /ESCALATE: (true|false)/
     actions : {<<a>> : a \in ActionLists}]                    \* /SUGGESTED_ACTIONS: (.+?)(?=\nESCALATE|$)/s

EvalOutcomes == {[kind |-> "fail"]} \cup EvalTexts

BatchEvalOutcomes ==
    {[kind |-> "fail"], [kind |-> "bad"],
     [kind |-> "text", sh |-> TRUE, conf |-> <<95>>, reasoning |-> <<"Relevant to this team">>,
      esc |-> <<"false">>, actions |-> <<>>],
     [kind |-> "text", sh |-> TRUE, conf |-> <<>>, reasoning |-> <<>>,
      esc |-> <<>>, actions |-> <<>>]}

ConflictTexts ==
    [kind : {"text"},
     agent : {<<>>, <<"Sales">>, <<"Legal">>},                 \* /ASSIGNED_AGENT: (\w+)/
     priority : {<<>>, <<"urgent">>},                          \* /PRIORITY: (low|medium|high|urgent)/
     reasoning : {<<>>}]                                       \* /REASONING: (.+?)(?=\n|$)/

ConflictOutcomes == {[kind |-> "fail"], [kind |-> "bad"]} \cup ConflictTexts

BatchConflictOutcomes ==
    {[kind |-> "fail"],
     [kind |-> "text", agent |-> <<>>, priority |-> <<>>, reasoning |-> <<>>],
     [kind |-> "text", agent |-> <<"HR">>, priority |-> <<"high">>, reasoning |-> <<>>]}

\* Replies that say 'SHOULD_HANDLE: true' with a confidence around the rungs
\* of the priority ladder and below the willing threshold.
LadderConfidences == {10, 61, 81, 88, 90}

LadderEvalOutcomes ==
    {[kind |-> "fail"]} \cup
    [kind : {"text"},
     sh : {TRUE},
     conf : {<<c>> : c \in LadderConfidences},
     reasoning : {<<t>> : t \in ReasoningTexts},
     esc : {<<>>, <<"true">>},
     actions : {<<>>}]

\* Replies of a deterministic test double.
StubEvalOutcomes ==
    {[kind |-> "fail"],
     [kind |-> "text", sh |-> TRUE, conf |-> <<95>>, reasoning |-> <<"Relevant to this team">>,
      esc |-> <<"false">>, actions |-> <<>>]}

StubConflictOutcomes ==
    {[kind |-> "fail"],
     [kind |-> "text", agent |-> <<"HR">>, priority |-> <<"high">>, reasoning |-> <<>>]}

\* The test doubles for the emails with the given ids: one fixed reply per
\* caller and email.
Stubs(ids) ==
    {[c \in Callers |-> IF c = "Supervisor" THEN g ELSE f[c]] :
        f \in [EvaluatorNames -> [ids -> StubEvalOutcomes]],
        g \in [ids -> StubConflictOutcomes]}

----------------------------------------------------------------------------
(* Reply texts and the evaluators' patterns                                *)
(*                                                                         *)
(* A text is a sequence of lines (joined by \n); a line is a label, which  *)
(* is followed by ': ' when it is not empty, and a value; a value is a      *)
(* sequence of tokens: digits, single blanks, words.                       *)

Labels == {"SHOULD_HANDLE", "CONFIDENCE", "REASONING", "SUGGESTED_ACTIONS", "ESCALATE"}

Line(label, value) == [label |-> label, value |-> value]

Digits == <<"0", "1", "2", "3", "4", "5", "6", "7", "8", "9">>

IsDigit(token) == \E d \in 1..10 : Digits[d] = token

DigitValue(token) == (CHOOSE d \in 1..10 : Digits[d] = token) - 1

\* parseInt of the digits that \d+ takes from the head of a value.
RECURSIVE ParseDigits(_, _)
ParseDigits(value, acc) ==
    IF value = <<>> \/ ~IsDigit(value[1]) THEN acc
    ELSE ParseDigits(Tail(value), 10 * acc + DigitValue(value[1]))

\* String.prototype.trim on a value.
RECURSIVE TrimValue(_)
TrimValue(value) ==
    IF value = <<>> THEN <<>>
    ELSE IF value[1] = " " THEN TrimValue(Tail(value))
    ELSE IF value[Len(value)] = " " THEN TrimValue(SubSeq(value, 1, Len(value) - 1))
    ELSE value

\* The characters of a value as one string.
RECURSIVE JoinValue(_)
JoinValue(value) ==
    IF value = <<>> THEN "" ELSE value[1] \o JoinValue(Tail(value))

\* The characters of a line.
LineText(line) ==
    IF line.label = "" THEN JoinValue(line.value)
    ELSE line.label \o ": " \o JoinValue(line.value)

\* The first of the lines ks where a pattern matches: 0 when there is none.
FirstLine(ks) ==
    IF ks = {} THEN 0 ELSE CHOOSE k \in ks : \A j \in ks : k <= j

\* content.includes('SHOULD_HANDLE: true')
ScanShouldHandle(text) ==
    \E k \in 1..Len(text) :
        /\ text[k].label = "SHOULD_HANDLE"
        /\ text[k].value # <<>>
        /\ text[k].value[1] = "true"

\* content.match(/CONFIDENCE: (\d+)/), then parseInt
ScanConfidence(text) ==
    LET k == FirstLine({j \in 1..Len(text) : /\ text[j].label = "CONFIDENCE"
                                              /\ text[j].value # <<>>
                                              /\ IsDigit(text[j].value[1])})
    IN  IF k = 0 THEN <<>> ELSE <<ParseDigits(text[k].value, 0)>>

\* content.match(/REASONING: (.+?)(?=\n|$)/), then trim
ScanReasoning(text) ==
    LET k == FirstLine({j \in 1..Len(text) : /\ text[j].label = "REASONING"
                                              /\ text[j].value # <<>>})
    IN  IF k = 0 THEN <<>> ELSE <<JoinValue(TrimValue(text[k].value))>>

\* content.match(/ESCALATE: (true|false)/)
ScanEscalate(text) ==
    LET k == FirstLine({j \in 1..Len(text) : /\ text[j].label = "ESCALATE"
                                              /\ text[j].value # <<>>
                                              /\ text[j].value[1] \in {"true", "false"}})
    IN  IF k = 0 THEN <<>> ELSE <<text[k].value[1]>>

\* The last line of the capture (.+?)(?=\nESCALATE|$) that starts in line k:
\* the one before the next line that begins with ESCALATE, else the last of
\* the text.  The capture takes at least one character, so after an empty
\* value it has taken the line break and line k+1 is in it whatever it is.
ActionsEnd(text, k) ==
    LET from == IF text[k].value = <<>> THEN k + 2 ELSE k + 1
        js == {j \in from..Len(text) : text[j].label = "ESCALATE"}
    IN  IF js = {} THEN Len(text) ELSE (CHOOSE j \in js : \A m \in js : j <= m) - 1

\* content.match(/SUGGESTED_ACTIONS: (.+?)(?=\nESCALATE|$)/s), then
\* split('\n'), trim each, drop the empty ones.
ScanActions(text) ==
    LET k == FirstLine({j \in 1..Len(text) : text[j].label = "SUGGESTED_ACTIONS"})
    IN  IF k = 0 \/ (k = Len(text) /\ text[k].value = <<>>) THEN <<>>
        ELSE LET pieces == <<JoinValue(TrimValue(text[k].value))>> \o
                           [j \in 1..(ActionsEnd(text, k) - k) |->
                               LineText(Line(text[k + j].label, TrimValue(text[k + j].value)))]
             IN  <<SelectSeq(pieces, LAMBDA piece : piece # "")>>

\* What the patterns find in a text, with the text itself.
Scan(text) ==
    [kind |-> "text",
     sh |-> ScanShouldHandle(text),
     conf |-> ScanConfidence(text),
     reasoning |-> ScanReasoning(text),
     esc |-> ScanEscalate(text),
     actions |-> ScanActions(text),
     lines |-> text]

\* The lines replies are made of.
HandleTrue == <<Line("SHOULD_HANDLE", <<"true">>)>>
HandleFalse == <<Line("SHOULD_HANDLE", <<"false">>)>>
ConfidenceGiven == <<Line("CONFIDENCE", <<"9", "5">>)>>
ConfidencePercent == <<Line("CONFIDENCE", <<"8", "0", "%">>)>>
ConfidenceWord == <<Line("CONFIDENCE", <<"high">>)>>
ReasoningGiven == <<Line("REASONING", <<"Billing question">>)>>
ReasoningBlank == <<Line("REASONING", <<" ", " ">>)>>
ActionsGiven == <<Line("SUGGESTED_ACTIONS", <<"Reply to sender", " ">>), Line("", <<" ", "Open a ticket">>)>>
ActionsBelow == <<Line("SUGGESTED_ACTIONS", <<>>), Line("", <<"Reply to sender">>)>>
EscalateTrue == <<Line("ESCALATE", <<"true">>)>>
EscalateWord == <<Line("ESCALATE", <<"yes">>)>>

\* Reply texts: the format the prompt asks for, the same lines in other
\* orders, and texts with one or several fields missing or malformed.
ReplyTexts ==
    {HandleTrue \o ConfidenceGiven \o ReasoningGiven \o ActionsGiven \o EscalateTrue,
     HandleTrue \o ConfidenceGiven \o ActionsGiven \o ReasoningGiven \o EscalateTrue,
     ActionsGiven \o HandleTrue \o ConfidenceGiven \o ReasoningGiven \o EscalateTrue,
     HandleTrue \o ConfidenceGiven \o ReasoningGiven \o EscalateTrue \o ActionsGiven,
     HandleTrue \o ConfidenceGiven \o ReasoningGiven \o ActionsBelow \o EscalateTrue,
     ConfidenceGiven \o ReasoningGiven \o ActionsGiven \o EscalateTrue,
     HandleFalse \o ConfidenceGiven \o ReasoningGiven \o ActionsGiven \o EscalateTrue,
     HandleTrue \o ReasoningGiven \o ActionsGiven \o EscalateTrue,
     HandleTrue \o ConfidenceWord \o ReasoningGiven \o ActionsGiven \o EscalateTrue,
     HandleTrue \o ConfidencePercent \o ReasoningGiven \o ActionsGiven \o EscalateTrue,
     HandleTrue \o ConfidenceGiven \o ActionsGiven \o EscalateTrue,
     HandleTrue \o ConfidenceGiven \o ReasoningBlank \o ActionsGiven \o EscalateTrue,
     HandleTrue \o ConfidenceGiven \o ReasoningGiven \o EscalateTrue,
     HandleTrue \o ConfidenceGiven \o ReasoningGiven \o ActionsGiven,
     HandleTrue \o ConfidenceGiven \o ReasoningGiven \o ActionsGiven \o EscalateWord,
     HandleTrue \o ConfidenceWord \o EscalateWord,
     <<Line("", <<"I cannot help with that">>)>>}

\* llm.invoke on these texts: it fails or answers one of them.
ParseEvalOutcomes == {[kind |-> "fail"]} \cup {Scan(text) : text \in ReplyTexts}

----------------------------------------------------------------------------
(* The sample emails and the keyword rules of the rule-based demo *)

\* The keywords the demo looks for with text.includes(...).
SpamWords == {"newsletter", "unsubscribe"}
SupportWords == {"urgent", "critical", "down", "error", "issue", "problem", "support", "help"}
UrgentWords == {"urgent", "critical", "down"}
SalesWords == {"pricing", "demo", "enterprise", "purchase", "buy", "quote", "inquiry", "fortune"}
ReviewWords == {"fortune", "enterprise"}
HRWords == {"recruit", "candidate", "resume", "job", "employee", "hr"}

\* The six sample emails: noreply is from.includes('noreply'), words are the
\* keywords above that occur in subject.toLowerCase() + ' ' + body.toLowerCase().
SampleEmails ==
    <<[id |-> "email-001", noreply |-> FALSE,
       words |-> {"urgent", "critical", "down", "error", "issue"}],
      [id |-> "email-002", noreply |-> FALSE,
       words |-> {"pricing", "demo", "enterprise", "inquiry", "fortune", "employee"}],
      [id |-> "email-003", noreply |-> TRUE, words |-> {"newsletter"}],
      [id |-> "email-004", noreply |-> FALSE, words |-> {"error", "issue", "hr"}],
      [id |-> "email-005", noreply |-> FALSE, words |-> {"down", "hr"}],
      [id |-> "email-006", noreply |-> FALSE, words |-> {"resume"}]>>

\* The condition of the demo's branch for `agent`.
KeywordMatch(agent, email) ==
    IF agent = "SpamFilter" THEN email.noreply \/ email.words \cap SpamWords # {}
    ELSE IF agent = "CustomerSupport" THEN email.words \cap SupportWords # {}
    ELSE IF agent = "Sales" THEN email.words \cap SalesWords # {}
    ELSE email.words \cap HRWords # {}

\* The branch asks for human review: the only way an evaluator can is escalate.
KeywordEscalate(agent, email) ==
    IF agent = "CustomerSupport" THEN email.words \cap UrgentWords # {}
    ELSE IF agent = "Sales" THEN email.words \cap ReviewWords # {}
    ELSE FALSE

\* The confidences of the README's sample results.
SampleConfidence(agent, email) ==
    IF agent = "SpamFilter" THEN 92
    ELSE IF agent = "CustomerSupport"
         THEN IF email.words \cap UrgentWords # {} THEN 95 ELSE 78
    ELSE IF agent = "Sales" THEN 88
    ELSE 85

\* The reply of the keyword test double of `agent` to `email`.
KeywordReply(agent, email) ==
    [kind |-> "text",
     sh |-> KeywordMatch(agent, email),
     conf |-> <<SampleConfidence(agent, email)>>,
     reasoning |-> <<"Keyword match">>,
     esc |-> IF KeywordEscalate(agent, email) THEN <<"true">> ELSE <<"false">>,
     actions |-> <<>>]

\* The evaluators answer by keyword; the conflict-resolution call has one
\* fixed reply per email.
KeywordStubs ==
    {[c \in Callers |->
        IF c = "Supervisor" THEN g
        ELSE [id \in {SampleEmails[k].id : k \in 1..Len(SampleEmails)} |->
                 LET k == CHOOSE k \in 1..Len(SampleEmails) : SampleEmails[k].id = id
                 IN  KeywordReply(c, SampleEmails[k])]] :
        g \in [{SampleEmails[k].id : k \in 1..Len(SampleEmails)} -> StubConflictOutcomes]}

----------------------------------------------------------------------------
(* Evaluators *)

\* The body of evaluate's try block after the await: the lenient parse.
\* Mutant: a reply without a confidence counts as a confident one.
ParseReply_ConfidentByDefault(content) ==
    [shouldHandle |-> content.sh,
     confidence |-> IF content.conf = <<>> THEN 75 ELSE content.conf[1],
     reasoning |-> IF content.reasoning = <<>> THEN "Analysis completed" ELSE content.reasoning[1],
     suggestedActions |-> IF content.actions = <<>> THEN <<>> ELSE content.actions[1],
     escalate |-> IF content.esc = <<>> THEN FALSE ELSE content.esc[1] = "true"]

\* Mutant: one missing field makes the parse fall back on every default.
ParseReply_AllOrNothing(content) ==
    IF content.conf = <<>> \/ content.reasoning = <<>> \/ content.esc = <<>> \/ content.actions = <<>>
    THEN [shouldHandle |-> content.sh,
          confidence |-> DefaultConfidence,
          reasoning |-> "Analysis completed",
          suggestedActions |-> <<>>,
          escalate |-> FALSE]
    ELSE [shouldHandle |-> content.sh,
          confidence |-> content.conf[1],
          reasoning |-> content.reasoning[1],
          suggestedActions |-> content.actions[1],
          escalate |-> content.esc[1] = "true"]

\* The parse in evaluate's try block: each field from its own match, or its
\* own default when there is no match.
ParseReply(content) ==
    [shouldHandle |-> content.sh,
     confidence |-> IF content.conf = <<>> THEN DefaultConfidence ELSE content.conf[1],
     reasoning |-> IF content.reasoning = <<>> THEN "Analysis completed" ELSE content.reasoning[1],
     suggestedActions |-> IF content.actions = <<>> THEN <<>> ELSE content.actions[1],
     escalate |-> IF content.esc = <<>> THEN FALSE ELSE content.esc[1] = "true"]

\* Mutant: every evaluator's catch block sets escalate: false.
DegradedDecision_NeverEscalate(agent) ==
    [shouldHandle |-> FALSE,
     confidence |-> 0,
     reasoning |-> "Error occurred during evaluation",
     escalate |-> FALSE]

\* The decision built in evaluate's catch block.
DegradedDecision(agent) ==
    [shouldHandle |-> FALSE,
     confidence |-> 0,
     reasoning |-> "Error occurred during evaluation",
     escalate |-> (agent = "CustomerSupport")]

\* Mutant: evaluate has no try/catch, a failed call rejects its promise.
Evaluate_NoCatch(agent, outcome) ==
    IF outcome.kind = "text"
    THEN [threw |-> FALSE, value |-> <<ParseReply(outcome)>>]
    ELSE [threw |-> TRUE, value |-> <<>>]

\* evaluate(email) once its llm.invoke has ended with `outcome`:
\* threw = TRUE would be a rejection of the promise evaluate returned.
Evaluate(agent, outcome) ==
    IF outcome.kind = "text"
    THEN [threw |-> FALSE, value |-> <<ParseReply(outcome)>>]
    ELSE [threw |-> FALSE, value |-> <<DegradedDecision(agent)>>]

----------------------------------------------------------------------------
(* Supervisor helpers *)

Entry(name, decision) == [name |-> name, decision |-> decision]

\* state.agentDecisions[name]: <<>> when the key is not there.
Lookup(decisions, name) ==
    LET hits == SelectSeq(decisions, LAMBDA e : e.name = name)
    IN  IF hits = <<>> THEN <<>> ELSE <<hits[Len(hits)].decision>>

\* Mutant: the comparator is a.confidence - b.confidence (ascending).
InsertByConfidence_Ascending(sorted, e) ==
    LET keep == {k \in 1..Len(sorted) : sorted[k].decision.confidence <= e.decision.confidence}
        n == IF keep = {} THEN 0 ELSE CHOOSE k \in keep : \A j \in keep : j <= k
    IN  SubSeq(sorted, 1, n) \o <<e>> \o SubSeq(sorted, n + 1, Len(sorted))

\* One step of a stable sort by descending confidence: e goes after every
\* entry whose confidence is at least its own.
InsertByConfidence(sorted, e) ==
    LET keep == {k \in 1..Len(sorted) : sorted[k].decision.confidence >= e.decision.confidence}
        n == IF keep = {} THEN 0 ELSE CHOOSE k \in keep : \A j \in keep : j <= k
    IN  SubSeq(sorted, 1, n) \o <<e>> \o SubSeq(sorted, n + 1, Len(sorted))

RECURSIVE SortByConfidence(_)
SortByConfidence(s) ==
    IF s = <<>> THEN <<>>
    ELSE InsertByConfidence(SortByConfidence(SubSeq(s, 1, Len(s) - 1)), s[Len(s)])

\* Mutant: every decision with shouldHandle=true is willing.
IsWilling_ShouldHandleOnly(decision) ==
    decision.shouldHandle

\* Mutant: the willing threshold is not strict.
IsWilling_AtLeast(decision) ==
    decision.shouldHandle /\ decision.confidence >= WillingThreshold

IsWilling(decision) ==
    decision.shouldHandle /\ decision.confidence > WillingThreshold

\* Object.entries(decisions).filter(...).sort(...)
WillingAgents(decisions) ==
    SortByConfidence(SelectSeq(decisions, LAMBDA e : IsWilling(e.decision)))

\* Mutant: the spam filter short-circuits only above the 'high' threshold.
IsLikelySpam_High(decision) ==
    decision.shouldHandle /\ decision.confidence > HighThreshold

IsLikelySpam(decision) ==
    decision.shouldHandle /\ decision.confidence > SpamThreshold

\* Mutant: the confidence rungs are tried before the escalate flag.
determinePriority_ConfidenceFirst(decision) ==
    IF decision.confidence > HighThreshold THEN "high"
    ELSE IF decision.escalate THEN "urgent"
    ELSE IF decision.confidence > MediumThreshold THEN "medium"
    ELSE "low"

determinePriority(decision) ==
    IF decision.escalate THEN "urgent"
    ELSE IF decision.confidence > HighThreshold THEN "high"
    ELSE IF decision.confidence > MediumThreshold THEN "medium"
    ELSE "low"

\* Mutant: the summary is the assigned decision's reasoning even when empty.
createTriageResult_SummaryAsIs(decisions, emailId, category, priority, assignedAgent, requiresHumanReview) ==
    LET assignedDecision == Lookup(decisions, assignedAgent)
        hasActions == assignedDecision # <<>> /\ "suggestedActions" \in DOMAIN assignedDecision[1]
    IN  [emailId |-> emailId,
         category |-> category,
         priority |-> priority,
         assignedAgent |-> assignedAgent,
         summary |-> IF assignedDecision # <<>> THEN assignedDecision[1].reasoning
                     ELSE "Email categorized as " \o category,
         suggestedActions |-> IF hasActions THEN assignedDecision[1].suggestedActions
                              ELSE <<"Route to " \o assignedAgent \o " team">>,
         requiresHumanReview |-> requiresHumanReview]

\* private createTriageResult: each of summary and suggestedActions falls back
\* (||) on its own when the assigned decision is missing or lacks a value.
createTriageResult(decisions, emailId, category, priority, assignedAgent, requiresHumanReview) ==
    LET assignedDecision == Lookup(decisions, assignedAgent)
        hasReasoning == assignedDecision # <<>> /\ assignedDecision[1].reasoning # ""
        hasActions == assignedDecision # <<>> /\ "suggestedActions" \in DOMAIN assignedDecision[1]
    IN  [emailId |-> emailId,
         category |-> category,
         priority |-> priority,
         assignedAgent |-> assignedAgent,
         summary |-> IF hasReasoning THEN assignedDecision[1].reasoning
                     ELSE "Email categorized as " \o category,
         suggestedActions |-> IF hasActions THEN assignedDecision[1].suggestedActions
                              ELSE <<"Route to " \o assignedAgent \o " team">>,
         requiresHumanReview |-> requiresHumanReview]

\* Mutant: the conflict path flags an urgent result for human review.
ResolveConflictResult_FlagUrgent(decisions, emailId, willing, outcome) ==
    IF outcome.kind = "text"
    THEN LET assignedAgent == IF outcome.agent = <<>> THEN willing[1].name ELSE outcome.agent[1]
             priority == IF outcome.priority = <<>> THEN "medium" ELSE outcome.priority[1]
         IN  createTriageResult(decisions, emailId, assignedAgent, priority, assignedAgent,
                                priority = "urgent")
    ELSE createTriageResult(decisions, emailId, willing[1].name, "medium", willing[1].name, FALSE)

\* Mutant: a reply without a PRIORITY label gets 'low'.
ResolveConflictResult_DefaultLow(decisions, emailId, willing, outcome) ==
    IF outcome.kind = "text"
    THEN LET assignedAgent == IF outcome.agent = <<>> THEN willing[1].name ELSE outcome.agent[1]
             priority == IF outcome.priority = <<>> THEN "low" ELSE outcome.priority[1]
         IN  createTriageResult(decisions, emailId, assignedAgent, priority, assignedAgent, FALSE)
    ELSE createTriageResult(decisions, emailId, willing[1].name, "medium", willing[1].name, FALSE)

\* resolveConflict after its llm.invoke has ended with `outcome`.
ResolveConflictResult(decisions, emailId, willing, outcome) ==
    IF outcome.kind = "text"
    THEN LET assignedAgent == IF outcome.agent = <<>> THEN willing[1].name ELSE outcome.agent[1]
             priority == IF outcome.priority = <<>> THEN "medium" ELSE outcome.priority[1]
         IN  createTriageResult(decisions, emailId, assignedAgent, priority, assignedAgent, FALSE)
    ELSE createTriageResult(decisions, emailId, willing[1].name, "medium", willing[1].name, FALSE)

\* No test double: the replies are whatever the language model answers.
NoStub == <<>>

NoCalls == [c \in Callers |-> 0]
NoKinds == [a \in EvaluatorNames |-> "none"]
NoReplies == [a \in EvaluatorNames |-> <<>>]
NonePending == [a \in SpecialistNames |-> <<>>]

----------------------------------------------------------------------------
(* Initial states *)

TypeInit ==
    /\ apiKey \in EnvKeys
    /\ exitCode = <<>>
    /\ i = 1
    /\ mainPc = "start"
    /\ run = 1
    /\ firstResults = <<>>
    /\ results = <<>>
    /\ errorLog = <<>>
    /\ pc = "idle"
    /\ agentDecisions = <<>>
    /\ pending = NonePending
    /\ willingAgents = <<>>
    /\ returned = <<>>
    /\ calls = NoCalls
    /\ evalKind = NoKinds
    /\ replies = NoReplies
    /\ conflictOutcome = <<>>

\* One email: the decision procedure over the whole set of replies.
Init ==
    /\ emails = <<[id |-> SampleIds[1]]>>
    /\ stub = NoStub
    /\ TypeInit

\* A batch of 1..MaxEmails emails and a test double in place of the language
\* model.
InitTwice ==
    /\ \E n \in 1..MaxEmails :
          /\ emails = [k \in 1..n |-> [id |-> SampleIds[k]]]
          /\ stub \in Stubs({SampleIds[k] : k \in 1..n})
    /\ TypeInit

\* The six sample emails against the keyword test doubles.
InitSample ==
    /\ emails = SampleEmails
    /\ stub \in KeywordStubs
    /\ TypeInit

\* A batch of up to MaxEmails emails.
InitBatch ==
    /\ emails \in {[k \in 1..n |-> [id |-> SampleIds[k]]] : n \in 0..MaxEmails}
    /\ stub = NoStub
    /\ TypeInit

----------------------------------------------------------------------------
(* main *)

\* Mutant: the environment is not validated.
MissingCredential_Never(key) == FALSE

\* !process.env.OPENAI_API_KEY: unset or the empty string.
MissingCredential(key) == key = <<>> \/ key[1] = ""

\* "Validate environment", then the supervisor and the results list are made.
MainValidateEnv ==
    /\ mainPc = "start"
    /\ IF MissingCredential(apiKey)
       THEN /\ exitCode' = <<1>>
            /\ mainPc' = "exited"
       ELSE /\ exitCode' = exitCode
            /\ mainPc' = "loop"
    /\ UNCHANGED <<stub, run, firstResults, apiKey,
                   emails, i, results, errorLog, pc, agentDecisions, pending,
                   willingAgents, returned, calls, evalKind, replies, conflictOutcome>>

\* Mutant: triageEmail starts the four evaluations at once.
MainCallTriage_AllAtOnce ==
    /\ mainPc = "loop"
    /\ i <= Len(emails)
    /\ mainPc' = "await"
    /\ pc' = "spamCheck"
    /\ agentDecisions' = <<>>
    /\ pending' = NonePending
    /\ willingAgents' = <<>>
    /\ returned' = <<>>
    /\ calls' = [c \in Callers |-> IF c \in EvaluatorNames THEN 1 ELSE 0]
    /\ evalKind' = NoKinds
    /\ replies' = NoReplies
    /\ conflictOutcome' = <<>>
    /\ UNCHANGED <<stub, run, firstResults, apiKey,
                   exitCode, emails, i, results, errorLog>>

\* for-loop body up to `await supervisor.triageEmail(email)`; triageEmail runs
\* up to `await this.spamFilterAgent.evaluate(email)`, whose llm.invoke is sent.
MainCallTriage ==
    /\ mainPc = "loop"
    /\ i <= Len(emails)
    /\ mainPc' = "await"
    /\ pc' = "spamCheck"
    /\ agentDecisions' = <<>>
    /\ pending' = NonePending
    /\ willingAgents' = <<>>
    /\ returned' = <<>>
    /\ calls' = [NoCalls EXCEPT !["SpamFilter"] = 1]
    /\ evalKind' = NoKinds
    /\ replies' = NoReplies
    /\ conflictOutcome' = <<>>
    /\ UNCHANGED <<stub, run, firstResults, apiKey,
                   exitCode, emails, i, results, errorLog>>

\* Mutant: results.unshift(result).
MainResume_Unshift ==
    /\ mainPc = "await"
    /\ pc \in {"done", "raised"}
    /\ IF pc = "done"
       THEN /\ results' = <<returned[1]>> \o results
            /\ errorLog' = errorLog
       ELSE /\ results' = results
            /\ errorLog' = Append(errorLog, emails[i].id)
    /\ i' = i + 1
    /\ mainPc' = "loop"
    /\ pc' = "idle"
    /\ UNCHANGED <<stub, run, firstResults, apiKey, exitCode, emails, agentDecisions, pending,
                   willingAgents, returned, calls, evalKind, replies, conflictOutcome>>

\* Mutant: the loop body has no try/catch, a rejection leaves main and
\* main().catch ends the process.
MainResume_NoCatch ==
    /\ mainPc = "await"
    /\ pc \in {"done", "raised"}
    /\ IF pc = "done"
       THEN /\ results' = Append(results, returned[1])
            /\ i' = i + 1
            /\ mainPc' = "loop"
            /\ exitCode' = exitCode
       ELSE /\ results' = results
            /\ i' = i
            /\ mainPc' = "exited"
            /\ exitCode' = <<1>>
    /\ pc' = "idle"
    /\ UNCHANGED <<stub, run, firstResults, apiKey, emails, errorLog, agentDecisions, pending,
                   willingAgents, returned, calls, evalKind, replies, conflictOutcome>>

\* triageEmail settled: results.push(result), or the catch block; next i.
MainResume ==
    /\ mainPc = "await"
    /\ pc \in {"done", "raised"}
    /\ IF pc = "done"
       THEN /\ results' = Append(results, returned[1])
            /\ errorLog' = errorLog
       ELSE /\ results' = results
            /\ errorLog' = Append(errorLog, emails[i].id)
    /\ i' = i + 1
    /\ mainPc' = "loop"
    /\ pc' = "idle"
    /\ UNCHANGED <<stub, run, firstResults, apiKey,
                   exitCode, emails, agentDecisions, pending, willingAgents, returned,
                   calls, evalKind, replies, conflictOutcome>>

\* The loop ends; the summary is printed.
MainFinish ==
    /\ mainPc = "loop"
    /\ i > Len(emails)
    /\ mainPc' = "finished"
    /\ UNCHANGED <<stub, run, firstResults, apiKey,
                   exitCode, emails, i, results, errorLog, pc, agentDecisions, pending,
                   willingAgents, returned, calls, evalKind, replies, conflictOutcome>>

\* Mutant: results is a module-level list, not made anew by each main().
MainRunAgain_KeepResults ==
    /\ mainPc = "finished"
    /\ run = 1
    /\ run' = 2
    /\ firstResults' = results
    /\ i' = 1
    /\ mainPc' = "start"
    /\ UNCHANGED <<stub, apiKey, exitCode, emails, results, errorLog, pc, agentDecisions,
                   pending, willingAgents, returned, calls, evalKind, replies, conflictOutcome>>

\* main() is invoked a second time on the same input: a new supervisor, a new
\* results list.  What the first invocation's last triageEmail left behind is
\* garbage no one holds.
MainRunAgain ==
    /\ mainPc = "finished"
    /\ run = 1
    /\ run' = 2
    /\ firstResults' = results
    /\ results' = <<>>
    /\ i' = 1
    /\ mainPc' = "start"
    /\ UNCHANGED <<stub, apiKey, exitCode, emails, errorLog, pc, agentDecisions,
                   pending, willingAgents, returned, calls, evalKind, replies, conflictOutcome>>

\* Fault injection at the boundary of main's try block: the promise of
\* supervisor.triageEmail(email) rejects while a call is outstanding.
TriageRaises ==
    /\ mainPc = "await"
    /\ pc \in {"spamCheck", "parallel", "conflict"}
    /\ pc' = "raised"
    /\ UNCHANGED <<stub, run, firstResults, apiKey, exitCode, emails, i, mainPc, results,
                   errorLog, agentDecisions, pending, willingAgents, returned, calls,
                   evalKind, replies, conflictOutcome>>

----------------------------------------------------------------------------
(* SupervisorAgent.triageEmail *)

\* Step 1 resumes with the spam decision: short-circuit, or start the three
\* specialist evaluations (each runs up to its own llm.invoke).
SpamCheckReturn(outcomes) ==
    /\ pc = "spamCheck"
    /\ \E outcome \in outcomes :
         LET r == Evaluate("SpamFilter", outcome) IN
         /\ evalKind' = [evalKind EXCEPT !["SpamFilter"] = outcome.kind]
         /\ replies' = [replies EXCEPT !["SpamFilter"] = <<outcome>>]
         /\ IF r.threw
            THEN /\ pc' = "raised"
                 /\ UNCHANGED <<agentDecisions, returned, calls>>
            ELSE LET spamDecision == r.value[1]
                     decisions == <<Entry("SpamFilter", spamDecision)>>
                 IN  /\ agentDecisions' = decisions
                     /\ IF IsLikelySpam(spamDecision)
                        THEN /\ returned' = <<createTriageResult(decisions, emails[i].id,
                                                 "Spam/Low-Priority", "low", "SpamFilter", FALSE)>>
                             /\ pc' = "done"
                             /\ calls' = calls
                        ELSE /\ returned' = returned
                             /\ pc' = "parallel"
                             /\ calls' = [c \in Callers |->
                                            IF c \in SpecialistNames THEN calls[c] + 1 ELSE calls[c]]
    /\ UNCHANGED <<stub, run, firstResults, apiKey,
                   exitCode, emails, i, mainPc, results, errorLog, pending, willingAgents, conflictOutcome>>

\* Mutant: a rejected llm.invoke leaves the promise of evaluate pending for
\* good.
EvaluatorSettles_FailHangs(agent, outcome) ==
    LET r == Evaluate(agent, outcome) IN
    /\ pc = "parallel"
    /\ pending[agent] = <<>>
    /\ evalKind[agent] = "none"
    /\ evalKind' = [evalKind EXCEPT ![agent] = outcome.kind]
    /\ replies' = [replies EXCEPT ![agent] = <<outcome>>]
    /\ pc' = pc
    /\ pending' = IF outcome.kind = "fail" THEN pending
                  ELSE [pending EXCEPT ![agent] = r.value]
    /\ UNCHANGED <<stub, run, firstResults, apiKey, exitCode, emails, i, mainPc, results,
                   errorLog, agentDecisions, willingAgents, returned, calls, conflictOutcome>>

\* Mutant: each evaluation stores its decision in the state when it settles.
EvaluatorSettles_StoreOnSettle(agent, outcome) ==
    LET r == Evaluate(agent, outcome) IN
    /\ pc = "parallel"
    /\ pending[agent] = <<>>
    /\ evalKind' = [evalKind EXCEPT ![agent] = outcome.kind]
    /\ replies' = [replies EXCEPT ![agent] = <<outcome>>]
    /\ IF r.threw
       THEN /\ pc' = "raised"
            /\ pending' = pending
            /\ agentDecisions' = agentDecisions
       ELSE /\ pc' = pc
            /\ pending' = [pending EXCEPT ![agent] = r.value]
            /\ agentDecisions' = Append(agentDecisions, Entry(agent, r.value[1]))
    /\ UNCHANGED <<stub, run, firstResults, apiKey, exitCode, emails, i, mainPc, results,
                   errorLog, willingAgents, returned, calls, conflictOutcome>>

\* The evaluation of `agent`, one of the three concurrent ones, settles.
EvaluatorSettles(agent, outcome) ==
    LET r == Evaluate(agent, outcome) IN
    /\ pc = "parallel"
    /\ pending[agent] = <<>>
    /\ evalKind' = [evalKind EXCEPT ![agent] = outcome.kind]
    /\ replies' = [replies EXCEPT ![agent] = <<outcome>>]
    /\ IF r.threw
       THEN /\ pc' = "raised"
            /\ pending' = pending
       ELSE /\ pc' = pc
            /\ pending' = [pending EXCEPT ![agent] = r.value]
    /\ UNCHANGED <<stub, run, firstResults, apiKey, exitCode, emails, i, mainPc, results,
                   errorLog, agentDecisions, willingAgents, returned, calls, conflictOutcome>>

\* One of the three concurrent evaluations settles.
EvaluatorReturn(outcomes) ==
    \E agent \in SpecialistNames, outcome \in outcomes : EvaluatorSettles(agent, outcome)

\* Mutant: the join is a race, it resumes on the first settled promise.
AllSettled_Any(p) == \E a \in SpecialistNames : p[a] # <<>>

\* Promise.all has every value.
AllSettled(p) == \A a \in SpecialistNames : p[a] # <<>>

\* [customerSupportDecision, salesDecision, hrDecision], stored under their
\* names in this order.
SettledEntries(p) ==
    LET settled == SelectSeq(Specialists, LAMBDA a : p[a] # <<>>)
    IN  [k \in 1..Len(settled) |-> Entry(settled[k], p[settled[k]][1])]

\* Promise.all resolves: the three decisions are stored and makeRoutingDecision
\* runs, to a result or up to resolveConflict's llm.invoke.
JoinAndDecide ==
    /\ pc = "parallel"
    /\ AllSettled(pending)
    /\ LET decisions == agentDecisions \o SettledEntries(pending)
           willing == WillingAgents(decisions)
       IN  /\ agentDecisions' = decisions
           /\ IF Len(willing) = 0
              THEN /\ returned' = <<createTriageResult(decisions, emails[i].id,
                                       "General", "medium", "General", TRUE)>>
                   /\ pc' = "done"
                   /\ UNCHANGED <<willingAgents, calls>>
              ELSE IF Len(willing) = 1
              THEN /\ returned' = <<createTriageResult(decisions, emails[i].id,
                                       willing[1].name, determinePriority(willing[1].decision),
                                       willing[1].name, willing[1].decision.escalate)>>
                   /\ pc' = "done"
                   /\ UNCHANGED <<willingAgents, calls>>
              ELSE /\ willingAgents' = willing
                   /\ calls' = [calls EXCEPT !["Supervisor"] = @ + 1]
                   /\ pc' = "conflict"
                   /\ returned' = returned
    /\ UNCHANGED <<stub, run, firstResults, apiKey,
                   exitCode, emails, i, mainPc, results, errorLog, pending, evalKind, replies,
                   conflictOutcome>>

\* Mutant: a rejected llm.invoke is sent once more.
ConflictReturn_Retry(outcomes) ==
    /\ pc = "conflict"
    /\ \E outcome \in outcomes :
         IF outcome.kind = "fail" /\ calls["Supervisor"] < 2
         THEN /\ calls' = [calls EXCEPT !["Supervisor"] = @ + 1]
              /\ UNCHANGED <<pc, conflictOutcome, returned>>
         ELSE /\ conflictOutcome' = <<outcome>>
              /\ returned' = <<ResolveConflictResult(agentDecisions, emails[i].id,
                                                     willingAgents, outcome)>>
              /\ pc' = "done"
              /\ calls' = calls
    /\ UNCHANGED <<stub, run, firstResults, apiKey, exitCode, emails, i, mainPc, results,
                   errorLog, agentDecisions, pending, willingAgents, evalKind, replies>>

\* resolveConflict's llm.invoke settles.
ConflictReturn(outcomes) ==
    /\ pc = "conflict"
    /\ \E outcome \in outcomes :
         /\ conflictOutcome' = <<outcome>>
         /\ returned' = <<ResolveConflictResult(agentDecisions, emails[i].id, willingAgents, outcome)>>
    /\ pc' = "done"
    /\ UNCHANGED <<stub, run, firstResults, apiKey,
                   exitCode, emails, i, mainPc, results, errorLog, agentDecisions, pending,
                   willingAgents, calls, evalKind, replies>>

\* The same steps with the test double answering.
StubReply(caller) == stub[caller][emails[i].id]

StubbedSpamCheck == SpamCheckReturn({StubReply("SpamFilter")})

StubbedEvaluator == \E agent \in SpecialistNames : EvaluatorSettles(agent, StubReply(agent))

StubbedConflict == ConflictReturn({StubReply("Supervisor")})

----------------------------------------------------------------------------
(* Specifications *)

Next ==
    \/ MainValidateEnv
    \/ MainCallTriage
    \/ MainResume
    \/ MainFinish
    \/ SpamCheckReturn(EvalOutcomes)
    \/ EvaluatorReturn(EvalOutcomes)
    \/ JoinAndDecide
    \/ ConflictReturn(ConflictOutcomes)

Spec == Init /\ [][Next]_vars

NextBatch ==
    \/ MainValidateEnv
    \/ MainCallTriage
    \/ MainResume
    \/ MainFinish
    \/ SpamCheckReturn(BatchEvalOutcomes)
    \/ EvaluatorReturn(BatchEvalOutcomes)
    \/ JoinAndDecide
    \/ ConflictReturn(BatchConflictOutcomes)

SpecBatch == InitBatch /\ [][NextBatch]_vars

\* The batch with a triageEmail that can reject.
NextFault ==
    \/ MainValidateEnv
    \/ MainCallTriage
    \/ MainResume
    \/ MainFinish
    \/ TriageRaises
    \/ SpamCheckReturn(BatchEvalOutcomes)
    \/ EvaluatorReturn(BatchEvalOutcomes)
    \/ JoinAndDecide
    \/ ConflictReturn(BatchConflictOutcomes)

SpecFault == InitBatch /\ [][NextFault]_vars

\* What main and triageEmail do, and the calls settling, with two replies per
\* call.
LiveProgress ==
    \/ MainValidateEnv
    \/ MainCallTriage
    \/ MainResume
    \/ MainFinish
    \/ SpamCheckReturn(StubEvalOutcomes)
    \/ EvaluatorReturn(StubEvalOutcomes)
    \/ JoinAndDecide
    \/ ConflictReturn(StubConflictOutcomes)

NextLive ==
    \/ MainValidateEnv
    \/ MainCallTriage
    \/ MainResume
    \/ MainFinish
    \/ TriageRaises
    \/ SpamCheckReturn(StubEvalOutcomes)
    \/ EvaluatorReturn(StubEvalOutcomes)
    \/ JoinAndDecide
    \/ ConflictReturn(StubConflictOutcomes)

\* main and triageEmail go on whenever they can and every llm.invoke settles
\* in the end: some step other than the injected rejection is taken whenever
\* one can be.
SpecLive == InitBatch /\ [][NextLive]_vars /\ WF_vars(LiveProgress)

\* The batch run twice against a test double.
NextTwice ==
    \/ MainValidateEnv
    \/ MainCallTriage
    \/ MainResume
    \/ MainFinish
    \/ MainRunAgain
    \/ StubbedSpamCheck
    \/ StubbedEvaluator
    \/ JoinAndDecide
    \/ StubbedConflict

SpecTwice == InitTwice /\ [][NextTwice]_vars

\* One email, replies around the rungs of the priority ladder.
NextLadder ==
    \/ MainValidateEnv
    \/ MainCallTriage
    \/ MainResume
    \/ MainFinish
    \/ SpamCheckReturn(LadderEvalOutcomes)
    \/ EvaluatorReturn(LadderEvalOutcomes)
    \/ JoinAndDecide
    \/ ConflictReturn(BatchConflictOutcomes)

SpecLadder == Init /\ [][NextLadder]_vars

\* One email whose evaluators answer the reply texts.
NextParse ==
    \/ MainValidateEnv
    \/ MainCallTriage
    \/ MainResume
    \/ MainFinish
    \/ SpamCheckReturn(ParseEvalOutcomes)
    \/ EvaluatorReturn(ParseEvalOutcomes)
    \/ JoinAndDecide
    \/ ConflictReturn(StubConflictOutcomes)

SpecParse == Init /\ [][NextParse]_vars

\* One run over the sample emails against the keyword test doubles.
NextSample ==
    \/ MainValidateEnv
    \/ MainCallTriage
    \/ MainResume
    \/ MainFinish
    \/ StubbedSpamCheck
    \/ StubbedEvaluator
    \/ JoinAndDecide
    \/ StubbedConflict

SpecSample == InitSample /\ [][NextSample]_vars

----------------------------------------------------------------------------
(* Vocabulary of the properties *)

\* The triage of the current email has produced its result.
HasResult == returned # <<>>
Result == returned[1]

\* The SpamFilter decision recorded for the current email.
SpamRecorded == agentDecisions # <<>> /\ agentDecisions[1].name = "SpamFilter"
SpamDecision == agentDecisions[1].decision

\* All four decisions are recorded: the Decide step has run.
AllRecorded ==
    [k \in 1..Len(agentDecisions) |-> agentDecisions[k].name]
        = <<"SpamFilter", "CustomerSupport", "Sales", "HR">>

\* Positions of the recorded decisions with shouldHandle=true and confidence>50.
WillingRecorded ==
    {k \in 1..Len(agentDecisions) :
        agentDecisions[k].decision.shouldHandle /\ agentDecisions[k].decision.confidence > 50}

\* The priority ladder as the specification states it.
LadderPriority(d) ==
    IF d.escalate THEN "urgent"
    ELSE IF d.confidence > 90 THEN "high"
    ELSE IF d.confidence > 70 THEN "medium"
    ELSE "low"

----------------------------------------------------------------------------
\* C1: whenever the SpamFilter decision has shouldHandle=true and confidence
\* above 70, the email's result is Spam/Low-Priority, low, SpamFilter, no
\* human review, and no other evaluator and no conflict-resolution call is
\* made for that email.
C1_SpamShortCircuit ==
    (SpamRecorded /\ SpamDecision.shouldHandle /\ SpamDecision.confidence > 70)
        => /\ pc \in {"done", "idle"}
           /\ HasResult
           /\ Result.category = "Spam/Low-Priority"
           /\ Result.priority = "low"
           /\ Result.assignedAgent = "SpamFilter"
           /\ Result.requiresHumanReview = FALSE
           /\ \A c \in Callers \ {"SpamFilter"} : calls[c] = 0
           /\ calls["SpamFilter"] = 1
           /\ conflictOutcome = <<>>

C1_Witness ==
    /\ pc = "done"
    /\ SpamRecorded /\ SpamDecision.shouldHandle /\ SpamDecision.confidence = 71
    /\ Result.assignedAgent = "SpamFilter"

\* C2: when all four decisions have shouldHandle=false or confidence<=50, the
\* result is General, medium, General, human review, and no
\* conflict-resolution call is made.
C2_NoWillingAgent ==
    (AllRecorded /\ WillingRecorded = {})
        => /\ HasResult
           /\ Result.category = "General"
           /\ Result.priority = "medium"
           /\ Result.assignedAgent = "General"
           /\ Result.requiresHumanReview = TRUE
           /\ calls["Supervisor"] = 0
           /\ conflictOutcome = <<>>

C2_Witness ==
    /\ pc = "done"
    /\ AllRecorded /\ WillingRecorded = {}
    /\ \E k \in 1..4 : /\ agentDecisions[k].decision.shouldHandle
                       /\ agentDecisions[k].decision.confidence = 50
    /\ \E k \in 1..4 : /\ ~agentDecisions[k].decision.shouldHandle
                       /\ agentDecisions[k].decision.confidence = 95
    /\ Result.assignedAgent = "General"

ConflictEnded == conflictOutcome # <<>>
ConflictKind == conflictOutcome[1].kind

\* The result assigns a willing agent whose confidence no willing agent exceeds.
AssignsHighestConfidence ==
    /\ Result.category = Result.assignedAgent
    /\ \E k \in WillingRecorded :
          /\ agentDecisions[k].name = Result.assignedAgent
          /\ \A j \in WillingRecorded :
                agentDecisions[j].decision.confidence <= agentDecisions[k].decision.confidence

\* The reply has no ASSIGNED_AGENT label to extract (or is no text at all).
ReplyUnparseable ==
    /\ ConflictEnded
    /\ \/ ConflictKind = "bad"
       \/ ConflictKind = "text" /\ conflictOutcome[1].agent = <<>>

\* C4: with two or more willing agents and a conflict-resolution call that
\* raises, the result assigns the willing agent with the highest confidence,
\* priority medium, no human review.
C4_ConflictCallFails ==
    (ConflictEnded /\ ConflictKind = "fail")
        => /\ HasResult
           /\ AllRecorded
           /\ Cardinality(WillingRecorded) >= 2
           /\ AssignsHighestConfidence
           /\ Result.priority = "medium"
           /\ Result.requiresHumanReview = FALSE

C4_Witness ==
    /\ pc = "done"
    /\ ConflictEnded /\ ConflictKind = "fail"
    /\ \E k \in WillingRecorded :
          /\ agentDecisions[k].name = Result.assignedAgent
          /\ \E j \in WillingRecorded :
                /\ j < k
                /\ agentDecisions[j].decision.confidence < agentDecisions[k].decision.confidence
    /\ Result.priority = "medium"

\* C5 (as amended): with two or more willing agents and a reply from which no
\* ASSIGNED_AGENT can be extracted, the result assigns the willing agent with
\* the highest confidence and flags no human review; its priority is the
\* reply's PRIORITY label when the reply has one, and 'medium' otherwise.
C5_UnparseableReplyAmended ==
    ReplyUnparseable
        => /\ HasResult
           /\ Cardinality(WillingRecorded) >= 2
           /\ AssignsHighestConfidence
           /\ Result.requiresHumanReview = FALSE
           /\ Result.priority =
                 IF ConflictKind = "text" /\ conflictOutcome[1].priority # <<>>
                 THEN conflictOutcome[1].priority[1]
                 ELSE "medium"

C5_Witness ==
    /\ pc = "done"
    /\ ReplyUnparseable
    /\ ConflictKind = "text"
    /\ conflictOutcome[1].priority = <<"urgent">>
    /\ Result.priority = "urgent"
    /\ Result.assignedAgent \in EvaluatorNames

\* C5 (as stated): every reply without an ASSIGNED_AGENT label gives the same
\* fallback as a failed call: highest confidence, priority medium, no review.
C5_UnparseableReplyOriginal ==
    ReplyUnparseable
        => /\ HasResult
           /\ AssignsHighestConfidence
           /\ Result.priority = "medium"
           /\ Result.requiresHumanReview = FALSE

\* The decision evaluator a handed to the supervisor for the current email.
DecisionOf(a) ==
    IF a = "SpamFilter"
    THEN IF agentDecisions = <<>> THEN <<>> ELSE <<agentDecisions[1].decision>>
    ELSE pending[a]

\* C6: an evaluator whose call fails, or whose reply cannot be processed, does
\* not raise; it hands over shouldHandle=false, confidence=0, a reasoning that
\* names the failure, and escalate=true for CustomerSupport only.  The
\* supervisor only ever holds decisions with the AgentDecision fields.
C6_DegradedDecision ==
    /\ pc # "raised"
    /\ \A a \in EvaluatorNames :
          /\ evalKind[a] \in {"fail", "bad"}
                => DecisionOf(a) =
                      <<[shouldHandle |-> FALSE,
                         confidence |-> 0,
                         reasoning |-> "Error occurred during evaluation",
                         escalate |-> (a = "CustomerSupport")]>>
          /\ evalKind[a] # "none"
                => /\ Len(DecisionOf(a)) = 1
                   /\ {"shouldHandle", "confidence", "reasoning", "escalate"}
                         \subseteq DOMAIN DecisionOf(a)[1]
                   /\ DecisionOf(a)[1].shouldHandle \in BOOLEAN
                   /\ DecisionOf(a)[1].escalate \in BOOLEAN
                   /\ DecisionOf(a)[1].confidence \in Nat

C6_Witness ==
    /\ evalKind["CustomerSupport"] = "bad"
    /\ evalKind["Sales"] = "fail"
    /\ pending["CustomerSupport"] # <<>> /\ pending["CustomerSupport"][1].escalate
    /\ pending["Sales"] # <<>> /\ ~pending["Sales"][1].escalate
    /\ pc = "done"

\* C7: triageEmail never raises and resolves with one result carrying the id
\* of its email, whatever the calls do; the batch collects exactly one result
\* per input email, in all one per email once the loop has ended.
C7_OneResultPerEmail ==
    /\ pc # "raised"
    /\ errorLog = <<>>
    /\ pc = "done" => Len(returned) = 1 /\ returned[1].emailId = emails[i].id
    /\ Len(results) = IF mainPc = "finished" THEN Len(emails) ELSE i - 1
    /\ \A k \in 1..Len(results) : results[k].emailId = emails[k].id

C7_Witness ==
    /\ mainPc = "finished"
    /\ Len(emails) = 2
    /\ Len(results) = 2
    /\ results[1].emailId = "email-001" /\ results[1].assignedAgent = "General"
    /\ results[2].emailId = "email-002"
    /\ evalKind["HR"] = "fail"
    /\ ConflictEnded /\ ConflictKind = "fail"

\* C8: on every path the result's assignedAgent is one of the four evaluator
\* names or a fallback sentinel (General, Manual).
C8_AssignedAgentKnown ==
    HasResult =>
        Result.assignedAgent \in {"SpamFilter", "CustomerSupport", "Sales", "HR", "General", "Manual"}

\* C9: when the spam short-circuit does not fire, the Decide step and the
\* conflict-resolution call start only after all three specialist evaluations
\* have settled, whatever their order; the state then holds exactly one
\* decision per evaluator, the ones the evaluations settled with, and until
\* then nothing is decided.
C9_JoinBeforeDecide ==
    /\ (/\ pc \in {"conflict", "done"}
        /\ SpamRecorded
        /\ ~(SpamDecision.shouldHandle /\ SpamDecision.confidence > 70))
          => /\ \A a \in SpecialistNames : pending[a] # <<>>
             /\ AllRecorded
             /\ \A k \in 2..4 : <<agentDecisions[k].decision>> = pending[agentDecisions[k].name]
    /\ pc = "parallel"
          => /\ returned = <<>>
             /\ Len(agentDecisions) = 1
             /\ calls["Supervisor"] = 0
             /\ conflictOutcome = <<>>

C9_Witness ==
    /\ pc = "conflict"
    /\ AllRecorded
    /\ \A a \in SpecialistNames : pending[a] # <<>>
    /\ evalKind["Sales"] = "fail"
    /\ calls["Supervisor"] = 1

\* C10: in the Decide step, whenever the decision of the assigned evaluator
\* has escalate=true, the result is urgent and flagged for human review,
\* whether that evaluator was the only willing one or won the conflict
\* resolution.
C10_EscalateForcesReview ==
    (HasResult /\ AllRecorded /\ Lookup(agentDecisions, Result.assignedAgent) # <<>>)
        => (Lookup(agentDecisions, Result.assignedAgent)[1].escalate
               => Result.priority = "urgent" /\ Result.requiresHumanReview = TRUE)

\* Input positions of the emails that have a result, in the order of results.
ResultPositions ==
    {pos \in [1..Len(results) -> 1..Len(emails)] :
        /\ \A k \in 1..Len(results) : emails[pos[k]].id = results[k].emailId
        /\ \A k \in 1..Len(results), l \in 1..Len(results) : k < l => pos[k] < pos[l]}

\* A call of the language model is outstanding.
CallInFlight == pc \in {"spamCheck", "parallel", "conflict"}

\* C11: emails are processed one at a time in input order: while any call is
\* outstanding it belongs to email i, main is waiting for it, and each of the
\* i-1 emails before it has ended in a result or a logged skip; the results
\* list is in input order, a subsequence of it when emails were skipped.
C11_OneAtATimeInOrder ==
    /\ CallInFlight
          => /\ mainPc = "await"
             /\ i \in 1..Len(emails)
             /\ Len(results) + Len(errorLog) = i - 1
    /\ (pc = "spamCheck" /\ i > 1)
          => \/ results # <<>> /\ results[Len(results)].emailId = emails[i - 1].id
             \/ errorLog # <<>> /\ errorLog[Len(errorLog)] = emails[i - 1].id
    /\ ResultPositions # {}

C11_Witness ==
    /\ mainPc = "finished"
    /\ Len(emails) = 2
    /\ errorLog = <<"email-001">>
    /\ Len(results) = 1 /\ results[1].emailId = "email-002"

\* What main has settled so far: every email before i, all once finished.
Processed == IF mainPc = "finished" THEN Len(emails) ELSE i - 1

\* Every processed email has either one result or one logged skip, and the
\* process has not been ended by a failure.
SkipsAccounted ==
    /\ Len(results) + Len(errorLog) = Processed
    /\ \A k \in 1..Processed :
          \/ /\ \E r \in 1..Len(results) : results[r].emailId = emails[k].id
             /\ \A e \in 1..Len(errorLog) : errorLog[e] # emails[k].id
          \/ /\ \E e \in 1..Len(errorLog) : errorLog[e] = emails[k].id
             /\ \A r \in 1..Len(results) : results[r].emailId # emails[k].id
    /\ apiKey = <<"sk-test">> => exitCode = <<>> /\ mainPc # "exited"

\* A step from a rejected triageEmail logs the id of email i, adds no result
\* and moves on to email i+1; no step changes a result already collected.
SkipStep ==
    /\ pc = "raised"
          => /\ results' = results
             /\ errorLog' = Append(errorLog, emails[i].id)
             /\ i' = i + 1
             /\ mainPc' = "loop"
    /\ Len(results') >= Len(results)
    /\ SubSeq(results', 1, Len(results)) = results

\* C12: when the processing of one email raises, main catches it, logs that
\* email's id, adds no result for it and goes on with the next email; results
\* collected before stay as they are, later emails still get their results,
\* and the failure never ends the batch run.
C12_FailureSkipsOneEmail == [](SkipsAccounted) /\ [][SkipStep]_vars

C12_Witness ==
    /\ mainPc = "finished"
    /\ Len(emails) = 2
    /\ errorLog = <<"email-002">>
    /\ Len(results) = 1 /\ results[1].emailId = "email-001"
    /\ exitCode = <<>>

\* C13: with OPENAI_API_KEY absent, main exits with a non-zero status before
\* any processing: no triageEmail is started, no call is made, no result is
\* produced.
C13_MissingCredentialExits ==
    /\ apiKey = <<>>
          => /\ mainPc \in {"start", "exited"}
             /\ mainPc = "exited" => exitCode # <<>> /\ exitCode[1] # 0
             /\ pc = "idle"
             /\ i = 1
             /\ \A c \in Callers : calls[c] = 0
             /\ agentDecisions = <<>>
             /\ returned = <<>>
             /\ results = <<>>
    /\ exitCode # <<>> => mainPc = "exited"

C13_Witness ==
    /\ apiKey = <<>>
    /\ mainPc = "exited"
    /\ exitCode = <<1>>
    /\ Len(emails) = 2

\* The number of llm.invoke calls made for the current email.
RECURSIVE SumCalls(_)
SumCalls(S) ==
    IF S = {} THEN 0
    ELSE LET c == CHOOSE c \in S : TRUE IN calls[c] + SumCalls(S \ {c})

TotalCalls == SumCalls(Callers)

SameReplies(a, b) == \A c \in Callers : stub[c][a] = stub[c][b]

\* C15: against a deterministic test double, the second run of the batch on
\* the same input ends with the result list of the first, which it rebuilds
\* entry by entry; two emails that get
\* the same replies get the same result but for the id; and each triageEmail
\* starts from nothing: no decision, promise, reply or result of an earlier
\* email is there when its first call is out.
C15_RunTwiceSameResults ==
    /\ (run = 2 /\ mainPc = "finished") => results = firstResults
    /\ run = 2
          => /\ Len(results) <= Len(firstResults)
             /\ \A k \in 1..Len(results) : results[k] = firstResults[k]
    /\ \A k \in 1..Len(results), l \in 1..Len(results) :
          SameReplies(results[k].emailId, results[l].emailId)
             => [results[k] EXCEPT !.emailId = ""] = [results[l] EXCEPT !.emailId = ""]
    /\ pc = "spamCheck"
          => /\ agentDecisions = <<>>
             /\ \A a \in SpecialistNames : pending[a] = <<>>
             /\ willingAgents = <<>>
             /\ returned = <<>>
             /\ conflictOutcome = <<>>
             /\ \A a \in EvaluatorNames : evalKind[a] = "none"
             /\ \A c \in Callers : calls[c] = IF c = "SpamFilter" THEN 1 ELSE 0

C15_Witness ==
    /\ run = 2
    /\ mainPc = "finished"
    /\ Len(results) = 2
    /\ results = firstResults
    /\ results[1].assignedAgent = "HR" /\ results[1].priority = "high"
    /\ results[2].assignedAgent = "General"
    /\ ~SameReplies("email-001", "email-002")

\* C16: with the evaluators replaced by the keyword test doubles, the run over
\* the six sample emails ends with email-001 -> CustomerSupport, urgent;
\* email-002 -> Sales, high, human review; email-003 -> SpamFilter, low;
\* email-006 -> HR, medium.
C16_SampleRoundTrip ==
    mainPc = "finished"
        => /\ Len(results) = 6
           /\ results[1].emailId = "email-001"
           /\ results[1].assignedAgent = "CustomerSupport" /\ results[1].priority = "urgent"
           /\ results[2].emailId = "email-002"
           /\ results[2].assignedAgent = "Sales" /\ results[2].priority = "high"
           /\ results[2].requiresHumanReview = TRUE
           /\ results[3].emailId = "email-003"
           /\ results[3].assignedAgent = "SpamFilter" /\ results[3].priority = "low"
           /\ results[6].emailId = "email-006"
           /\ results[6].assignedAgent = "HR" /\ results[6].priority = "medium"

\* Positions of the recorded decisions with shouldHandle=true.
WantRecorded ==
    {k \in 1..Len(agentDecisions) : agentDecisions[k].decision.shouldHandle}

C18_UrgentFlaggedForReview ==
    (HasResult /\ Result.priority = "urgent") => Result.requiresHumanReview = TRUE

\* C19: a sole willing agent that does not escalate gets 'high' whenever its
\* confidence is above 80 and 'medium' whenever it is above 60 (and not
\* above 80).
C19_DocumentedLadder ==
    (AllRecorded /\ Cardinality(WillingRecorded) = 1)
        => LET k == CHOOSE k \in WillingRecorded : TRUE
               d == agentDecisions[k].decision
           IN  ~d.escalate
                  => /\ HasResult
                     /\ d.confidence > 80 => Result.priority = "high"
                     /\ (d.confidence > 60 /\ d.confidence <= 80) => Result.priority = "medium"

\* The phase changes of one triageEmail: SpamCheck -> ParallelEvaluate ->
\* Decide (with its conflict-resolution call) -> Done, or SpamCheck -> Done.
PhaseChanges ==
    {<<"idle", "spamCheck">>, <<"spamCheck", "parallel">>, <<"spamCheck", "done">>,
     <<"parallel", "conflict">>, <<"parallel", "done">>, <<"conflict", "done">>,
     <<"done", "idle">>}

\* Who has been called so far fits the phase.
CallsFitPhase ==
    /\ pc = "spamCheck" => \A c \in Callers \ {"SpamFilter"} : calls[c] = 0
    /\ (\E a \in SpecialistNames : calls[a] > 0)
          => /\ SpamRecorded
             /\ evalKind["SpamFilter"] # "none"
             /\ ~(SpamDecision.shouldHandle /\ SpamDecision.confidence > 70)
    /\ calls["Supervisor"] > 0
          => /\ AllRecorded
             /\ \A a \in SpecialistNames : evalKind[a] # "none"
             /\ Cardinality(WillingRecorded) >= 2
    /\ pc \in {"spamCheck", "parallel", "conflict"} => ~HasResult
    /\ pc = "done" => HasResult

\* A step changes the phase along PhaseChanges or not at all, and once the
\* result is there no call is made for that email.
PhaseStep ==
    /\ pc' # pc => <<pc, pc'>> \in PhaseChanges
    /\ pc = "done" => calls' = calls /\ returned' = returned
    /\ (pc = "idle" /\ pc' = "idle") => calls' = calls

\* C20: for each email the phases follow SpamCheck -> ParallelEvaluate ->
\* Decide -> Done, or SpamCheck -> Done on the short-circuit: no specialist is
\* called before the SpamFilter evaluation has ended, the conflict-resolution
\* call is made only with all four decisions recorded and two or more of them
\* willing, and no call is made once the result is produced.
C20_PhaseOrder == [](CallsFitPhase) /\ [][PhaseStep]_vars

C20_Witness ==
    /\ i = 2
    /\ pc = "done"
    /\ ConflictEnded
    /\ calls["Supervisor"] = 1
    /\ Len(results) = 1 /\ results[1].assignedAgent = "SpamFilter"

\* C21: when every call settles in the end, the batch run ends, and at its
\* end no triage is left open and every input email has been attempted once:
\* it has one result or one logged skip.
C21_EveryEmailSettles ==
    /\ <>(mainPc \in {"finished", "exited"})
    /\ [](mainPc = "finished"
            => SkipsAccounted /\ i = Len(emails) + 1 /\ ~CallInFlight /\ pc = "idle")
    /\ [][i' \in {i, i + 1}]_vars

C21_Witness ==
    /\ mainPc = "finished"
    /\ Len(emails) = 2
    /\ Len(results) = 2
    /\ results[2].assignedAgent = "HR" /\ results[2].priority = "high"
    /\ evalKind["Sales"] = "fail"

\* The decision recorded for the result's assignedAgent: <<>> when none is.
AssignedDecision == Lookup(agentDecisions, Result.assignedAgent)

DefaultSummary == "Email categorized as " \o Result.category

DefaultActions == <<"Route to " \o Result.assignedAgent \o " team">>

\* C22 (as amended): in every result, summary is the reasoning of the decision
\* recorded for assignedAgent when there is one with a non-empty reasoning,
\* and 'Email categorized as <category>' otherwise; suggestedActions is that
\* decision's suggestedActions when there is one that has the field (an empty
\* list included), and the single 'Route to <assignedAgent> team' otherwise.
\* suggestedActions is always a list.
C22_CopiedOrDefaultedPerField ==
    HasResult =>
        /\ Result.summary =
              IF AssignedDecision # <<>> /\ AssignedDecision[1].reasoning # ""
              THEN AssignedDecision[1].reasoning
              ELSE DefaultSummary
        /\ Result.suggestedActions =
              IF AssignedDecision # <<>> /\ "suggestedActions" \in DOMAIN AssignedDecision[1]
              THEN AssignedDecision[1].suggestedActions
              ELSE DefaultActions
        /\ Result.suggestedActions \in Seq(STRING)

C22_Witness ==
    /\ pc = "done"
    /\ HasResult
    /\ Result.assignedAgent = "Sales"
    /\ AssignedDecision # <<>>
    /\ AssignedDecision[1].reasoning = ""
    /\ Result.summary = "Email categorized as Sales"
    /\ Result.suggestedActions = <<"Reply to sender", "Open a ticket">>

\* C22 (as stated): the defaults are used only when no decision is recorded
\* for assignedAgent; otherwise both fields are copies of the decision's.
C22_DefaultsOnlyWithoutDecision ==
    HasResult =>
        IF AssignedDecision # <<>>
        THEN /\ Result.summary = AssignedDecision[1].reasoning
             /\ "suggestedActions" \in DOMAIN AssignedDecision[1]
             /\ Result.suggestedActions = AssignedDecision[1].suggestedActions
        ELSE /\ Result.summary = DefaultSummary
             /\ Result.suggestedActions = DefaultActions

\* C23: when the CustomerSupport call fails, the final result for that email
\* has requiresHumanReview=true, whatever Sales and HR decide.
C23_SupportFailureForcesReview ==
    (pc = "done" /\ HasResult /\ evalKind["CustomerSupport"] \in {"fail", "bad"})
        => Result.requiresHumanReview

\* Evaluator a has answered a text for the current email and handed over its
\* decision.
AnsweredText(a) ==
    /\ replies[a] # <<>>
    /\ replies[a][1].kind = "text"
    /\ "lines" \in DOMAIN replies[a][1]
    /\ DecisionOf(a) # <<>>

\* The lines of text t that have the label.
LinesWith(t, label) == {k \in 1..Len(t) : t[k].label = label}

StartsWithTrue(value) == value # <<>> /\ value[1] = "true"

StartsWithDigit(value) == value # <<>> /\ IsDigit(value[1])

StartsWithBoolean(value) == value # <<>> /\ value[1] \in {"true", "false"}

LinesUpToNextLabel(t, k) ==
    LET js == {j \in (k + 1)..Len(t) : t[j].label \in Labels}
        last == IF js = {} THEN Len(t) ELSE (CHOOSE j \in js : \A m \in js : j <= m) - 1
        pieces == [j \in 1..(last - k + 1) |-> JoinValue(TrimValue(t[k + j - 1].value))]
    IN  SelectSeq(pieces, LAMBDA piece : piece # "")

\* C25: in every evaluator's parse, whatever the order of the labeled lines,
\* suggestedActions is the non-empty trimmed lines between SUGGESTED_ACTIONS:
\* and the next labeled line or the end of the text.
C25_ActionsEndAtNextLabel ==
    \A a \in EvaluatorNames :
        AnsweredText(a) =>
            LET t == replies[a][1].lines
                acts == LinesWith(t, "SUGGESTED_ACTIONS")
            IN  acts # {} =>
                    DecisionOf(a)[1].suggestedActions =
                        LinesUpToNextLabel(t, CHOOSE k \in acts : \A m \in acts : k <= m)

C27_SpamFilterOnlyAsSpam ==
    /\ (HasResult /\ Result.assignedAgent = "SpamFilter")
          => /\ Result.category = "Spam/Low-Priority"
             /\ Result.priority = "low"
             /\ Result.requiresHumanReview = FALSE
    /\ pc = "conflict"
          => \A k \in 1..Len(willingAgents) : willingAgents[k].name # "SpamFilter"

\* C28: whenever conflict resolution has run, the result's assignedAgent is
\* one of the willing agents passed to it, whatever the reply.
C28_ConflictAssignsWillingAgent ==
    (pc = "done" /\ ConflictEnded /\ HasResult)
        => \E k \in 1..Len(willingAgents) : willingAgents[k].name = Result.assignedAgent

\* Evaluator a answered a text with 'SHOULD_HANDLE: true' and no
\* 'CONFIDENCE: <digits>'.
HandlesWithoutConfidence(a) ==
    /\ AnsweredText(a)
    /\ \E k \in LinesWith(replies[a][1].lines, "SHOULD_HANDLE") :
          StartsWithTrue(replies[a][1].lines[k].value)
    /\ \A k \in LinesWith(replies[a][1].lines, "CONFIDENCE") :
          ~StartsWithDigit(replies[a][1].lines[k].value)

\* C29: an evaluator whose reply has 'SHOULD_HANDLE: true' but no parseable
\* confidence gets confidence 50; it is never willing (never passed to
\* conflict resolution, never assigned by the Decide step itself) and, as
\* SpamFilter, never short-circuits; when all four replies are such, the
\* email goes to General with human review.
C29_NoConfidenceNeverWilling ==
    /\ \A a \in EvaluatorNames :
          HandlesWithoutConfidence(a)
              => /\ DecisionOf(a)[1].confidence = 50
                 /\ (HasResult /\ ~ConflictEnded) => Result.assignedAgent # a
                 /\ pc = "conflict" => \A k \in 1..Len(willingAgents) : willingAgents[k].name # a
    /\ (HandlesWithoutConfidence("SpamFilter") /\ HasResult)
          => AllRecorded /\ Result.category # "Spam/Low-Priority"
    /\ (pc = "done" /\ \A a \in EvaluatorNames : HandlesWithoutConfidence(a))
          => /\ Result.assignedAgent = "General"
             /\ Result.category = "General"
             /\ Result.priority = "medium"
             /\ Result.requiresHumanReview

C29_Witness ==
    /\ pc = "done"
    /\ \A a \in EvaluatorNames : HandlesWithoutConfidence(a)
    /\ replies["Sales"][1].lines = HandleTrue \o ConfidenceWord \o EscalateWord
    /\ replies["HR"][1].lines = HandleTrue \o ReasoningGiven \o ActionsGiven \o EscalateTrue
    /\ Result.assignedAgent = "General"

\* The four decisions of the current email in the order the supervisor
\* stores them, once the three concurrent evaluations have settled.
FixedOrderDecisions ==
    <<Entry("SpamFilter", SpamDecision)>> \o
    [k \in 1..Len(Specialists) |-> Entry(Specialists[k], pending[Specialists[k]][1])]

\* C30: once the three concurrent evaluations have settled, the recorded
\* decisions, the willing list with its order, and the result are functions
\* of the decisions (and of the conflict-resolution reply) alone: nothing of
\* the order in which the evaluations completed is left in them.
C30_CompletionOrderIrrelevant ==
    (pc \in {"conflict", "done"} /\ AllSettled(pending))
        => LET willing == WillingAgents(FixedOrderDecisions) IN
           /\ agentDecisions = FixedOrderDecisions
           /\ pc = "conflict" => willingAgents = willing
           /\ pc = "done" =>
                 Result =
                   IF Len(willing) = 0
                   THEN createTriageResult(FixedOrderDecisions, emails[i].id,
                                           "General", "medium", "General", TRUE)
                   ELSE IF Len(willing) = 1
                   THEN createTriageResult(FixedOrderDecisions, emails[i].id,
                                           willing[1].name, determinePriority(willing[1].decision),
                                           willing[1].name, willing[1].decision.escalate)
                   ELSE ResolveConflictResult(FixedOrderDecisions, emails[i].id, willing,
                                              conflictOutcome[1])

C30_Witness ==
    /\ pc = "done"
    /\ AllSettled(pending)
    /\ ConflictEnded /\ ConflictKind = "fail"
    /\ pending["CustomerSupport"][1].confidence = 95
    /\ pending["HR"][1].confidence = 95
    /\ IsWilling(pending["CustomerSupport"][1]) /\ IsWilling(pending["HR"][1])
    /\ evalKind["Sales"] = "fail"
    /\ Result.assignedAgent = "CustomerSupport"

====
